---- MODULE Spec2Model ----
(***************************************************************************)
(* The digging minigame of the economy bot (app/features/digging.py), the  *)
(* biome layer lookup (app/data/biomes.py) and the two weighted samplers   *)
(* (app/features/wheel.py, app/extensions/profit.py).                      *)
(*                                                                         *)
(* Conventions                                                             *)
(*  - Python's None is the string "None" for an item and the record        *)
(*    NoneCell for a grid slot.                                            *)
(*  - A position is the tuple <<x, y>>; grid row y is grid[y + 1] and      *)
(*    column x of a row is row[x + 1] (Python indexes from 0).             *)
(*  - Cell.hp is a float in the source.  Every value it takes here is a    *)
(*    multiple of 1/HP_UNIT, so hp is stored as an integer number of       *)
(*    1/HP_UNIT hit points.                                                *)
(*  - Cell.dirt_index only selects a texture and is left out.              *)
(*  - Random draws are arguments (rnd, tape, draws) chosen by \E in the    *)
(*    calling action.                                                      *)
(***************************************************************************)
EXTENDS Integers, Sequences, FiniteSets, TLC

(***************************************************************************)
(* Bounds of the model.                                                    *)
(***************************************************************************)
\* an action is explored when it leaves the player at a row y <= MaxY
MaxY == 2
\* max_stamina of the prepared session (100 + 20 * prestige in the source)
MaxStamina == 3
\* backpack.capacity of the equipped backpack (50, 100 or 200 in the source)
BackpackCapacity == 9
\* dynamite the player owns when the session is prepared
MaxDynamite == 1
\* rows one action may generate while the player falls
MaxFall == 2
\* surface confirmations that may be open at once
MaxPending == 2

(***************************************************************************)
(* Program constants.                                                      *)
(***************************************************************************)
GRID_WIDTH == 9
CELL_WIDTH == 48
HP_UNIT == 2
RAILGUN_HP == 30
DYNAMITE_HP == 10
DYNAMITE_RADIUS == 2

IMAGE_WIDTH == GRID_WIDTH * CELL_WIDTH

IMAGE_HEIGHT == IMAGE_WIDTH

Y_OFFSET == (IMAGE_HEIGHT \div 2) - (CELL_WIDTH \div 2)

Max(a, b) == IF a >= b THEN a ELSE b

Min(a, b) == IF a <= b THEN a ELSE b

\* math.ceil(a / b) for a >= 0, b > 0
CeilDiv(a, b) == (a + b - 1) \div b

Cols == 0 .. (GRID_WIDTH - 1)

(***************************************************************************)
(* Items (app/data/items.py): hp, volume and type of what can be dug up.   *)
(***************************************************************************)
DirtItems == {"dirt", "clay", "gravel", "limestone", "granite", "magma"}

WormItems == {"worm", "gummy_worm", "earthworm", "hook_worm", "poly_worm"}

OreItems == {"iron", "copper", "silver", "gold", "obsidian", "emerald", "diamond"}

ITEMS == DirtItems \cup WormItems \cup OreItems \cup {"ancient_relic"}

\* Item.hp, in hit points
ItemHp(i) ==
    CASE i = "dirt" -> 1 [] i = "clay" -> 3 [] i = "gravel" -> 5
      [] i = "limestone" -> 8 [] i = "granite" -> 12 [] i = "magma" -> 20
      [] i = "worm" -> 3 [] i = "gummy_worm" -> 5 [] i = "earthworm" -> 10
      [] i = "hook_worm" -> 15 [] i = "poly_worm" -> 20
      [] i = "ancient_relic" -> 30
      [] i = "iron" -> 2 [] i = "copper" -> 4 [] i = "silver" -> 6
      [] i = "gold" -> 8 [] i = "obsidian" -> 10 [] i = "emerald" -> 12
      [] i = "diamond" -> 20

\* Item.volume (default 1)
ItemVolume(i) ==
    CASE i \in {"gummy_worm", "earthworm", "hook_worm", "poly_worm",
                "obsidian", "emerald"} -> 2
      [] i \in {"ancient_relic", "diamond"} -> 3
      [] OTHER -> 1

\* Item.type
ItemTypeOf(i) ==
    CASE i \in DirtItems -> "dirt"
      [] i \in WormItems -> "worm"
      [] i \in OreItems -> "ore"
      [] OTHER -> "collectible"

\* ToolMetadata.strength of a shovel or pickaxe; "None" is bare hands
ToolStrength(tool) ==
    CASE tool = "shovel" -> 2
      [] tool = "pickaxe" -> 1
      [] OTHER -> 1

(***************************************************************************)
(* Biomes and layers (app/data/biomes.py).  A biome is the sequence of its *)
(* layers' depths; layer k (from 0) of the backyard has dirt               *)
(* BackyardDirt[k + 1].                                                    *)
(***************************************************************************)
BackyardDepths == <<0, 20, 40, 60, 80, 100>>

DesertDepths == <<0, 20, 40, 60, 80, 100>>

BackyardDirt == <<"dirt", "clay", "gravel", "limestone", "granite", "magma">>

\* keys of Layer.items of every backyard layer; all weights are positive
BackyardLayerItems == {"None"} \cup WormItems \cup OreItems \cup {"ancient_relic"}

\* bisect.bisect_left(layers, y, key=depth): the number of layers with depth < y
bisect_left(depths, yy) == Cardinality({k \in 1 .. Len(depths) : depths[k] < yy})

\* a Python list index: negative indices count from the end
PyIdx(i, n) == IF i < 0 THEN i + n ELSE i

\* Biome.get_layer, as the index (from 0) of the layer it returns
get_layer(depths, yy) ==
    IF yy < 1 THEN 0
    ELSE PyIdx(bisect_left(depths, yy) - 1, Len(depths))

(***************************************************************************)
(* Cells and row generation.                                               *)
(***************************************************************************)
NoneCell == [none |-> TRUE]

Cell(coins, item, hp) == [coins |-> coins, item |-> item, hp |-> hp]

\* app.util.common.weighted_choice: any key of positive weight
SPAWN_COUNT == [n \in 0 .. 4 |-> CASE n = 0 -> 4 [] n = 1 -> 6 [] n = 2 -> 4 [] n = 3 -> 2 [] n = 4 -> 1]

weighted_choice_outcomes(table) == {k \in DOMAIN table : table[k] > 0}

\* random.uniform(10 * y, 20 * y), at the points u = 0, 1, 2 of the interval,
\* times coin_multiplier (1.0 without pets), rounded
CoinsAt(yy, u) == 10 * yy + u * 5 * yy

\* rnd is what the random calls of one generate_row return: a sequence of
\* spawns [pos, item, u], the positions pairwise distinct (random.sample), its
\* length the spawn count drawn from SPAWN_COUNT
WellFormedRnd(rnd) ==
    /\ Len(rnd) \in weighted_choice_outcomes(SPAWN_COUNT)
    /\ \A i \in 1 .. Len(rnd) :
          /\ rnd[i].pos \in Cols
          /\ rnd[i].item \in BackyardLayerItems
          /\ rnd[i].u \in 0 .. 2
    /\ \A i, j \in 1 .. Len(rnd) : i # j => rnd[i].pos # rnd[j].pos

SpawnCell(yy, sp) ==
    IF sp.item = "None"
    THEN Cell(CoinsAt(yy, sp.u), "None", 0)
    ELSE Cell(0, sp.item, HP_UNIT * ItemHp(sp.item))

\* generate_row with a coin cell that keeps the dirt item and its hp
generate_row_mut(yy, rnd) ==
    LET dirt == BackyardDirt[get_layer(BackyardDepths, yy) + 1]
        base == Cell(0, dirt, HP_UNIT * ItemHp(dirt))
    IN  [c \in 1 .. GRID_WIDTH |->
            IF \E i \in 1 .. Len(rnd) : rnd[i].pos = c - 1
            THEN LET i == CHOOSE i \in 1 .. Len(rnd) : rnd[i].pos = c - 1
                 IN  IF rnd[i].item = "None"
                     THEN Cell(CoinsAt(yy, rnd[i].u), dirt, HP_UNIT * ItemHp(dirt))
                     ELSE SpawnCell(yy, rnd[i])
            ELSE base]

\* DiggingSession.generate_row
generate_row(yy, rnd) ==
    LET dirt == BackyardDirt[get_layer(BackyardDepths, yy) + 1]
        base == Cell(0, dirt, HP_UNIT * ItemHp(dirt))
    IN  [c \in 1 .. GRID_WIDTH |->
            IF yy # 0 /\ \E i \in 1 .. Len(rnd) : rnd[i].pos = c - 1
            THEN SpawnCell(yy, rnd[CHOOSE i \in 1 .. Len(rnd) : rnd[i].pos = c - 1])
            ELSE base]

(***************************************************************************)
(* DiggingSession.  A session s is the record of the fields of the object: *)
(* position, target, grid, explored, collected_coins, collected_items,     *)
(* stamina, max_stamina, shovel, pickaxe, capacity (backpack.capacity).    *)
(***************************************************************************)
RECURSIVE SumOver(_, _)
SumOver(S, f) ==
    IF S = {} THEN 0
    ELSE LET e == CHOOSE e \in S : TRUE IN f[e] + SumOver(S \ {e}, f)

NoItems == [i \in ITEMS |-> 0]

pos_x(s) == s.position[1]

pos_y(s) == s.position[2]

\* DiggingSession.y_range, as <<start, stop>>
y_range(s) ==
    LET effective_y == Max(0, pos_y(s))
        available_above == CeilDiv(Y_OFFSET, CELL_WIDTH)
        available_below == CeilDiv(IMAGE_HEIGHT - Y_OFFSET, CELL_WIDTH)
    IN  <<effective_y - available_above, effective_y + available_below>>

\* DiggingSession.target_xy
target_xy(s) ==
    CASE s.target = "down" -> <<pos_x(s), pos_y(s) + 1>>
      [] s.target = "left" -> <<pos_x(s) - 1, pos_y(s)>>
      [] s.target = "right" -> <<pos_x(s) + 1, pos_y(s)>>

\* a Python list of length n accepts index i
IndexOk(n, i) == -n <= i /\ i < n

\* grid[yy][xx] raises IndexError
grid_raises(g, xx, yy) == ~(IndexOk(Len(g), yy) /\ IndexOk(GRID_WIDTH, xx))

\* grid[yy][xx]
grid_at(g, xx, yy) == g[PyIdx(yy, Len(g)) + 1][PyIdx(xx, GRID_WIDTH) + 1]

grid_set(g, xx, yy, c) ==
    [g EXCEPT ![PyIdx(yy, Len(g)) + 1][PyIdx(xx, GRID_WIDTH) + 1] = c]

\* DiggingSession.target_cell
target_cell(s) == grid_at(s.grid, target_xy(s)[1], target_xy(s)[2])

target_cell_raises(s) == grid_raises(s.grid, target_xy(s)[1], target_xy(s)[2])

\* DiggingSession.backpack_occupied
backpack_occupied(s) ==
    SumOver({i \in ITEMS : s.collected_items[i] > 0},
            [i \in ITEMS |-> s.collected_items[i] * ItemVolume(i)])

\* what collect returns: None, the coins (an int) or the Item
Out(kind, coins, item) == [kind |-> kind, coins |-> coins, item |-> item]

OutNone == Out("None", 0, "None")

\* collect that leaves the cell in the grid
collect_mut(s, xx, yy) ==
    LET cell == grid_at(s.grid, xx, yy)
        full == cell # NoneCell
        c == IF full THEN cell ELSE Cell(0, "None", 0)
    IN  [s |-> [s EXCEPT
                 !.collected_coins = @ + c.coins,
                 !.collected_items =
                     IF c.item # "None" THEN [@ EXCEPT ![c.item] = @ + 1] ELSE @,
                 !.explored = @ \cup {<<xx, yy>>}],
         out |-> IF c.item # "None" THEN Out("Item", 0, c.item)
                 ELSE IF c.coins # 0 THEN Out("int", c.coins, "None")
                 ELSE OutNone]

\* DiggingSession.collect
collect(s, xx, yy) ==
    LET cell == grid_at(s.grid, xx, yy)
        full == cell # NoneCell
        c == IF full THEN cell ELSE Cell(0, "None", 0)
    IN  [s |-> [s EXCEPT
                 !.grid = grid_set(@, xx, yy, NoneCell),
                 !.collected_coins = @ + c.coins,
                 !.collected_items =
                     IF c.item # "None" THEN [@ EXCEPT ![c.item] = @ + 1] ELSE @,
                 !.explored = @ \cup {<<xx, yy>>}],
         out |-> IF c.item # "None" THEN Out("Item", 0, c.item)
                 ELSE IF c.coins # 0 THEN Out("int", c.coins, "None")
                 ELSE OutNone]

\* DiggingSession.collect_target
collect_target(s) ==
    LET xy == target_xy(s)
    IN  IF xy[2] < 0 \/ xy[1] < 0 \/ xy[1] >= GRID_WIDTH
        THEN [s |-> s, out |-> OutNone]
        ELSE collect(s, xy[1], xy[2])

\* DiggingSession._cleanup_explored
cleanup_explored(s) ==
    [s EXCEPT !.explored = {e \in @ : e[2] >= y_range(s)[1]}]

\* move that appends no row
move_mut(s, rnd) ==
    LET xy == target_xy(s)
        c == IF xy[2] >= 0 THEN collect_target(s) ELSE [s |-> s, out |-> OutNone]
    IN  [s |-> [c.s EXCEPT !.position = xy], out |-> c.out]

\* move that generates the row it enters anew
move_regenerates(s, rnd) ==
    LET xy == target_xy(s)
        c == IF xy[2] >= 0 THEN collect_target(s) ELSE [s |-> s, out |-> OutNone]
        a == IF s.target = "down"
             THEN cleanup_explored(
                    [c.s EXCEPT !.grid =
                        IF xy[2] >= 0
                        THEN Append([@ EXCEPT ![xy[2] + 1] = generate_row(xy[2], rnd)],
                                    generate_row(Len(@), rnd))
                        ELSE Append(@, generate_row(Len(@), rnd))])
             ELSE c.s
    IN  [s |-> [a EXCEPT !.position = target_xy(a)], out |-> c.out]

\* DiggingSession.move; rnd is the random outcome of the generate_row it may call
move(s, rnd) ==
    LET xy == target_xy(s)
        c == IF xy[2] >= 0 THEN collect_target(s) ELSE [s |-> s, out |-> OutNone]
        a == IF s.target = "down"
             THEN cleanup_explored(
                    [c.s EXCEPT !.grid = Append(@, generate_row(Len(@), rnd))])
             ELSE c.s
    IN  [s |-> [a EXCEPT !.position = target_xy(a)], out |-> c.out]

(***************************************************************************)
(* cascading_dig and surrounding_dig.  tape is the sequence of random      *)
(* outcomes of the generate_row calls made while the player falls; a call  *)
(* that needs more rows than the tape holds reports exhausted.             *)
(***************************************************************************)
AddOut(coins, items, out) ==
    [coins |-> IF out.kind = "int" THEN coins + out.coins ELSE coins,
     items |-> IF out.kind = "Item" THEN [items EXCEPT ![out.item] = @ + 1] ELSE items]

\* the item of the cell would not fit in the backpack
Overflows(s, cell) ==
    /\ cell.item # "None"
    /\ backpack_occupied(s) + ItemVolume(cell.item) > s.capacity

CascadeResult(s, remaining, coins, items, used, exhausted) ==
    [s |-> s, remaining |-> remaining, added_coins |-> coins, added_items |-> items,
     used |-> used, exhausted |-> exhausted]

\* the while loop with the partial damage to the last cell forgotten
RECURSIVE CascadeLoop_mut(_, _, _, _, _, _)
CascadeLoop_mut(s, remaining, coins, items, tape, used) ==
    IF remaining <= 0 THEN CascadeResult(s, remaining, coins, items, used, FALSE)
    ELSE
    LET tc == target_cell(s) IN
    IF tc = NoneCell \/ remaining >= tc.hp
    THEN LET rem2 == IF tc # NoneCell THEN remaining - tc.hp ELSE remaining IN
         IF tc # NoneCell /\ Overflows(s, tc)
         THEN CascadeResult(s, rem2, coins, items, used, FALSE)
         ELSE IF used >= Len(tape)
         THEN CascadeResult(s, rem2, coins, items, used, TRUE)
         ELSE LET m == move(s, tape[used + 1])
                  a == AddOut(coins, items, m.out)
              IN  CascadeLoop_mut(m.s, rem2, a.coins, a.items, tape, used + 1)
    ELSE CascadeResult(s, 0, coins, items, used, FALSE)

\* the while loop of cascading_dig
RECURSIVE CascadeLoop(_, _, _, _, _, _)
CascadeLoop(s, remaining, coins, items, tape, used) ==
    IF remaining <= 0 THEN CascadeResult(s, remaining, coins, items, used, FALSE)
    ELSE
    LET tc == target_cell(s) IN
    IF tc = NoneCell \/ remaining >= tc.hp
    THEN LET rem2 == IF tc # NoneCell THEN remaining - tc.hp ELSE remaining IN
         IF tc # NoneCell /\ Overflows(s, tc)
         THEN CascadeResult(s, rem2, coins, items, used, FALSE)
         ELSE IF used >= Len(tape)
         THEN CascadeResult(s, rem2, coins, items, used, TRUE)
         ELSE LET m == move(s, tape[used + 1])
                  a == AddOut(coins, items, m.out)
              IN  CascadeLoop(m.s, rem2, a.coins, a.items, tape, used + 1)
    ELSE LET xy == target_xy(s)
             s2 == [s EXCEPT !.grid =
                       grid_set(@, xy[1], xy[2], [tc EXCEPT !.hp = @ - remaining])]
         IN  CascadeResult(s2, 0, coins, items, used, FALSE)

\* DiggingSession.cascading_dig; total_hp in hit points
cascading_dig(s, total_hp, tape) ==
    CascadeLoop([s EXCEPT !.target = "down"], HP_UNIT * total_hp, 0, NoItems, tape, 0)

\* the "while self.target_cell is None: self.move()" of dig and surrounding_dig
RECURSIVE FallLoop(_, _, _)
FallLoop(s, tape, used) ==
    IF target_cell(s) # NoneCell THEN [s |-> s, used |-> used, exhausted |-> FALSE]
    ELSE IF used >= Len(tape) THEN [s |-> s, used |-> used, exhausted |-> TRUE]
    ELSE FallLoop(move(s, tape[used + 1]).s, tape, used + 1)

BlastResult(s, total_hp, coins, items, raised) ==
    [s |-> s, total_hp |-> total_hp, added_coins |-> coins, added_items |-> items,
     raised |-> raised]

\* the nested for loops with total_hp counting the damage, not what was dealt
RECURSIVE BlastLoop_mut(_, _, _, _, _, _, _)
BlastLoop_mut(s, base_hp, radius, k, total_hp, coins, items) ==
    LET side == 2 * radius + 1
        yy == pos_y(s) - radius + (k \div side)
        xx == pos_x(s) - radius + (k % side)
        distance == (xx - pos_x(s)) * (xx - pos_x(s)) + (yy - pos_y(s)) * (yy - pos_y(s))
    IN
    IF k >= side * side THEN BlastResult(s, total_hp, coins, items, FALSE)
    ELSE IF \/ yy < 0 \/ yy >= Len(s.grid) \/ xx < 0 \/ xx >= GRID_WIDTH
            \/ distance > radius * radius
    THEN BlastLoop_mut(s, base_hp, radius, k + 1, total_hp, coins, items)
    ELSE
    LET cell == grid_at(s.grid, xx, yy) IN
    IF cell = NoneCell \/ Overflows(s, cell)
    THEN BlastLoop_mut(s, base_hp, radius, k + 1, total_hp, coins, items)
    ELSE IF distance = 0
    THEN BlastResult(s, total_hp, coins, items, TRUE)
    ELSE
    LET damage == (HP_UNIT * base_hp) \div distance
        hp2 == cell.hp - damage
        s2 == [s EXCEPT !.grid = grid_set(@, xx, yy, [cell EXCEPT !.hp = hp2])]
        c == IF hp2 <= 0 THEN collect(s2, xx, yy) ELSE [s |-> s2, out |-> OutNone]
        a == AddOut(coins, items, c.out)
    IN  BlastLoop_mut(c.s, base_hp, radius, k + 1, total_hp + damage, a.coins, a.items)

\* the nested for loops of surrounding_dig, cell k of the bounding square onwards
RECURSIVE BlastLoop(_, _, _, _, _, _, _)
BlastLoop(s, base_hp, radius, k, total_hp, coins, items) ==
    LET side == 2 * radius + 1
        yy == pos_y(s) - radius + (k \div side)
        xx == pos_x(s) - radius + (k % side)
        distance == (xx - pos_x(s)) * (xx - pos_x(s)) + (yy - pos_y(s)) * (yy - pos_y(s))
    IN
    IF k >= side * side THEN BlastResult(s, total_hp, coins, items, FALSE)
    ELSE IF \/ yy < 0 \/ yy >= Len(s.grid) \/ xx < 0 \/ xx >= GRID_WIDTH
            \/ distance > radius * radius
    THEN BlastLoop(s, base_hp, radius, k + 1, total_hp, coins, items)
    ELSE
    LET cell == grid_at(s.grid, xx, yy) IN
    IF cell = NoneCell \/ Overflows(s, cell)
    THEN BlastLoop(s, base_hp, radius, k + 1, total_hp, coins, items)
    ELSE IF distance = 0
    THEN BlastResult(s, total_hp, coins, items, TRUE)   \* ZeroDivisionError
    ELSE
    LET damage == (HP_UNIT * base_hp) \div distance
        hp2 == cell.hp - damage
        s2 == [s EXCEPT !.grid = grid_set(@, xx, yy, [cell EXCEPT !.hp = hp2])]
        c == IF hp2 <= 0 THEN collect(s2, xx, yy) ELSE [s |-> s2, out |-> OutNone]
        a == AddOut(coins, items, c.out)
    IN  BlastLoop(c.s, base_hp, radius, k + 1,
                  total_hp + Min(cell.hp, damage), a.coins, a.items)

\* surrounding_dig that sets the target down but does not fall through the
\* slots it emptied
surrounding_dig_mut(s, base_hp, radius, tape) ==
    LET b == BlastLoop(s, base_hp, radius, 0, 0, 0, NoItems)
    IN  [s |-> [b.s EXCEPT !.target = "down"], total_hp |-> b.total_hp,
         added_coins |-> b.added_coins, added_items |-> b.added_items,
         raised |-> b.raised, used |-> 0, exhausted |-> FALSE]

\* DiggingSession.surrounding_dig; base_hp in hit points, total_hp in 1/HP_UNIT
surrounding_dig(s, base_hp, radius, tape) ==
    LET b == BlastLoop(s, base_hp, radius, 0, 0, 0, NoItems)
        f == FallLoop([b.s EXCEPT !.target = "down"], tape, 0)
    IN  IF b.raised
        THEN [s |-> b.s, total_hp |-> b.total_hp, added_coins |-> b.added_coins,
              added_items |-> b.added_items, raised |-> TRUE, used |-> 0,
              exhausted |-> FALSE]
        ELSE [s |-> f.s, total_hp |-> b.total_hp, added_coins |-> b.added_coins,
              added_items |-> b.added_items, raised |-> FALSE, used |-> f.used,
              exhausted |-> f.exhausted]

(***************************************************************************)
(* The view: buttons and their gating.  A button record ui holds, for the  *)
(* rows of the DiggingView, which are present and which buttons are        *)
(* disabled.  mem is the state of the button objects, shown is what the    *)
(* last edit of the message sent to the user: only what shown offers can   *)
(* be clicked.                                                             *)
(***************************************************************************)
VARIABLES
    session,    \* the DiggingSession
    inv,        \* the player's inventory and record: dynamite, railgun, railgun_cooldown
    mem,        \* button objects of the view
    shown,      \* buttons of the message as last sent
    finished,   \* DiggingView.is_finished()
    pending,    \* surface handlers awaiting ctx.confirm
    tasks,      \* dig, railgun and dynamite handlers suspended at an await
    store,      \* persistent storage: wallet, items, and the number of flushes
    fn          \* the last direct call of a function: its arguments and result,
                \* and the number n of direct calls made so far

vars == <<session, inv, mem, shown, finished, pending, tasks, store, fn>>

\* DiggingContainer.update_navigation_row
update_navigation_row(ui, s) ==
    LET down_cell == grid_at(s.grid, pos_x(s), pos_y(s) + 1)
    IN  [ui EXCEPT
           !.left_disabled = (pos_x(s) = 0),
           !.right_disabled = (pos_x(s) = GRID_WIDTH - 1),
           !.down_disabled =
               IF down_cell # NoneCell /\ down_cell.hp > 0
               THEN s.target = "down"
               ELSE @]

\* update_target_info without the backpack check
update_target_info_mut(ui, s) ==
    LET cell == target_cell(s) IN
    IF cell = NoneCell \/ (cell.item = "None" /\ cell.coins = 0)
    THEN [ui EXCEPT !.target_info = FALSE]
    ELSE IF cell.item # "None" /\ ItemTypeOf(cell.item) = "ore" /\ s.pickaxe = "None"
    THEN [ui EXCEPT !.target_info = TRUE, !.dig_disabled = TRUE]
    ELSE [ui EXCEPT !.target_info = TRUE,
                    !.dig_disabled = (s.stamina <= 0)]

\* update_target_info without the stamina check
update_target_info_tireless(ui, s) ==
    LET cell == target_cell(s) IN
    IF cell = NoneCell \/ (cell.item = "None" /\ cell.coins = 0)
    THEN [ui EXCEPT !.target_info = FALSE]
    ELSE IF cell.item # "None" /\ ItemTypeOf(cell.item) = "ore" /\ s.pickaxe = "None"
    THEN [ui EXCEPT !.target_info = TRUE, !.dig_disabled = TRUE]
    ELSE [ui EXCEPT !.target_info = TRUE,
                    !.dig_disabled =
                        IF cell.coins # 0 THEN FALSE
                        ELSE backpack_occupied(s) + ItemVolume(cell.item) > s.capacity]

\* DiggingContainer.update_target_info (target_cell does not raise)
update_target_info(ui, s) ==
    LET cell == target_cell(s) IN
    IF cell = NoneCell \/ (cell.item = "None" /\ cell.coins = 0)
    THEN [ui EXCEPT !.target_info = FALSE]
    ELSE IF cell.item # "None" /\ ItemTypeOf(cell.item) = "ore" /\ s.pickaxe = "None"
    THEN [ui EXCEPT !.target_info = TRUE, !.dig_disabled = TRUE]
    ELSE [ui EXCEPT !.target_info = TRUE,
                    !.dig_disabled =
                        IF s.stamina <= 0 THEN TRUE
                        ELSE IF cell.coins # 0 THEN FALSE
                        ELSE backpack_occupied(s) + ItemVolume(cell.item) > s.capacity]

\* DiggingActionRow.update
action_row_update(ui, s, iv, fin) ==
    IF fin THEN [ui EXCEPT !.action_shown = FALSE]
    ELSE
    LET down == grid_at(s.grid, pos_x(s), pos_y(s) + 1)
    IN  [ui EXCEPT
           !.action_shown = TRUE,
           !.railgun_shown = (iv.railgun > 0),
           !.railgun_disabled =
               IF iv.railgun > 0
               THEN iv.railgun_cooldown \/ (down # NoneCell /\ Overflows(s, down))
               ELSE @,
           !.dynamite_disabled =
               (iv.dynamite <= 0 \/ backpack_occupied(s) = s.capacity)]

\* DiggingContainer.update; raised: target_cell raised IndexError on the way
container_update(ui, s, iv, fin) ==
    IF fin
    THEN [ui |-> action_row_update(
                   [ui EXCEPT !.nav_shown = FALSE, !.dig_shown = FALSE], s, iv, fin),
          raised |-> FALSE]
    ELSE
    LET nav == [update_navigation_row(ui, s) EXCEPT !.nav_shown = TRUE] IN
    IF target_cell_raises(s)
    THEN [ui |-> [nav EXCEPT !.dig_shown = FALSE], raised |-> TRUE]
    ELSE LET ti == update_target_info(nav, s)
         IN  [ui |-> action_row_update([ti EXCEPT !.dig_shown = ti.target_info], s, iv, fin),
              raised |-> FALSE]

\* the button objects as constructed
NewButtons ==
    [nav_shown |-> FALSE, left_disabled |-> FALSE, right_disabled |-> FALSE,
     down_disabled |-> FALSE, target_info |-> TRUE, dig_shown |-> FALSE,
     dig_disabled |-> FALSE, action_shown |-> TRUE, railgun_shown |-> FALSE,
     railgun_disabled |-> FALSE, dynamite_disabled |-> FALSE]

(***************************************************************************)
(* The prepared session.  The random rows are drawn from small sets: the   *)
(* initial rows 1..4 from InitCases, every row appended later from         *)
(* AppendRnd.                                                              *)
(***************************************************************************)
SpawnAt(p, item) == <<[pos |-> p, item |-> item, u |-> 0]>>

NoSpawn == << >>

\* the prepared sessions explored: the equipped <<shovel, pickaxe>> and the
\* random outcomes of rows 1..4
InitCases ==
    { <<<<"None", "None">>,
        <<NoSpawn, NoSpawn, NoSpawn, NoSpawn>>>>,
      <<<<"shovel", "pickaxe">>,
        <<SpawnAt(4, "iron"), SpawnAt(4, "iron"), SpawnAt(4, "iron"), NoSpawn>>>>,
      <<<<"shovel", "pickaxe">>,
        <<SpawnAt(4, "None"), SpawnAt(4, "ancient_relic"), NoSpawn, NoSpawn>>>>,
      <<<<"None", "None">>,
        <<SpawnAt(4, "gummy_worm") \o SpawnAt(3, "iron"), SpawnAt(5, "None"),
          NoSpawn, NoSpawn>>>> }

\* the random outcomes of a row appended during play
AppendRnd == {NoSpawn}

\* the tapes an action may draw: the random outcomes of the rows it appends
Tapes == [1 .. MaxFall -> AppendRnd]

\* DiggingSession.__init__ and prepare; rnds[y] is the random outcome for row y
prepare(tools, rnds) ==
    LET s0 == [position |-> <<GRID_WIDTH \div 2, -1>>, target |-> "down",
               grid |-> << >>, explored |-> {}, collected_coins |-> 0,
               collected_items |-> NoItems, stamina |-> MaxStamina,
               max_stamina |-> MaxStamina, shovel |-> tools[1],
               pickaxe |-> tools[2], capacity |-> BackpackCapacity]
        stop == y_range(s0)[2]
    IN  [s0 EXCEPT !.grid =
            [r \in 1 .. stop |->
                generate_row(r - 1, IF r = 1 THEN NoSpawn ELSE rnds[r - 1])]]

\* no function has been called directly
NoCall == [op |-> "none", n |-> 0]

\* the view as constructed around the prepared session s; f is the direct
\* call about to be made, if any
InitWith(s, f) ==
    /\ session = s
    /\ inv = [dynamite |-> MaxDynamite, railgun |-> 1, railgun_cooldown |-> FALSE]
    /\ mem = container_update(NewButtons, session, inv, FALSE).ui
    /\ shown = mem
    /\ finished = FALSE
    /\ pending = 0
    /\ tasks = [suspended |-> << >>, started |-> 0]
    /\ store = [wallet |-> 0, items |-> NoItems, flushes |-> 0]
    /\ fn = f

Init == \E c \in InitCases : InitWith(prepare(c[1], c[2]), NoCall)

\* the handler ends with container.update() and an edit of the message, which
\* is not sent when the update raised
Refresh(s2, iv2) ==
    \E u \in {container_update(mem, s2, iv2, FALSE)} :
        /\ mem' = u.ui
        /\ shown' = IF u.raised THEN shown ELSE u.ui

(***************************************************************************)
(* NavigationRow                                                           *)
(***************************************************************************)
\* left that walks into the row above when the player is underground
Left_mut ==
    /\ ~finished /\ shown.nav_shown /\ ~shown.left_disabled
    /\ LET xx == pos_x(session)
           yy == pos_y(session)
           cell == grid_at(session.grid, xx - 1, yy)
           s2 == IF yy < 0 \/ cell = NoneCell
                 THEN [session EXCEPT !.position = <<xx - 1, IF yy > 0 THEN yy - 1 ELSE yy>>]
                 ELSE [session EXCEPT !.target = "left"]
       IN  /\ ~grid_raises(session.grid, xx - 1, yy)
           /\ session' = s2
           /\ Refresh(s2, inv)
    /\ UNCHANGED <<inv, finished, pending, tasks, store, fn>>

\* NavigationRow.left
Left ==
    /\ ~finished /\ shown.nav_shown /\ ~shown.left_disabled
    /\ LET xx == pos_x(session)
           yy == pos_y(session)
           cell == grid_at(session.grid, xx - 1, yy)
           s2 == IF yy < 0 \/ cell = NoneCell
                 THEN [session EXCEPT !.position = <<xx - 1, yy>>]
                 ELSE [session EXCEPT !.target = "left"]
       IN  /\ ~grid_raises(session.grid, xx - 1, yy)
           /\ session' = s2
           /\ Refresh(s2, inv)
    /\ UNCHANGED <<inv, finished, pending, tasks, store, fn>>

\* right that targets the neighbour even when its slot is empty
Right_retargets ==
    /\ ~finished /\ shown.nav_shown /\ ~shown.right_disabled
    /\ LET xx == pos_x(session)
           yy == pos_y(session)
           cell == grid_at(session.grid, xx + 1, yy)
           s2 == IF yy < 0
                 THEN [session EXCEPT !.position = <<xx + 1, yy>>]
                 ELSE [session EXCEPT !.target = "right"]
       IN  /\ ~grid_raises(session.grid, xx + 1, yy)
           /\ session' = s2
           /\ Refresh(s2, inv)
    /\ UNCHANGED <<inv, finished, pending, tasks, store, fn>>

\* NavigationRow.right
Right ==
    /\ ~finished /\ shown.nav_shown /\ ~shown.right_disabled
    /\ LET xx == pos_x(session)
           yy == pos_y(session)
           cell == grid_at(session.grid, xx + 1, yy)
           s2 == IF yy < 0 \/ cell = NoneCell
                 THEN [session EXCEPT !.position = <<xx + 1, yy>>]
                 ELSE [session EXCEPT !.target = "right"]
       IN  /\ ~grid_raises(session.grid, xx + 1, yy)
           /\ session' = s2
           /\ Refresh(s2, inv)
    /\ UNCHANGED <<inv, finished, pending, tasks, store, fn>>

\* NavigationRow.down
Down ==
    /\ ~finished /\ shown.nav_shown /\ ~shown.down_disabled
    /\ \E rnd \in AppendRnd :
         LET s1 == [session EXCEPT !.target = "down"]
             cell == target_cell(s1)
             moves == cell = NoneCell \/ cell.hp <= 0
         IN  \E s2 \in {IF moves THEN move(s1, rnd).s ELSE s1} :
             /\ pos_y(s2) <= MaxY
             /\ session' = s2
             /\ Refresh(s2, inv)
    /\ UNCHANGED <<inv, finished, pending, tasks, store, fn>>

(***************************************************************************)
(* TargetActionRow.dig                                                     *)
(***************************************************************************)
\* dig with the down target handled like a side target: collected, no fall
dig_mut(s, tape) ==
    LET cell == target_cell(s)
        xy == target_xy(s)
        tool == IF cell.item # "None" /\ ItemTypeOf(cell.item) = "ore"
                THEN s.pickaxe ELSE s.shovel
        hp_dealt == Min(HP_UNIT * ToolStrength(tool), cell.hp)
        s1 == [s EXCEPT
                 !.grid = grid_set(@, xy[1], xy[2], [cell EXCEPT !.hp = @ - hp_dealt]),
                 !.stamina = @ - 1]
        through == target_cell(s1).hp <= 0
        c == collect_target(s1)
    IN  IF through
        THEN [s |-> c.s, through |-> TRUE, hp_dealt |-> hp_dealt, out |-> c.out,
              used |-> 0, exhausted |-> FALSE]
        ELSE [s |-> s1, through |-> FALSE, hp_dealt |-> hp_dealt, out |-> OutNone,
              used |-> 0, exhausted |-> FALSE]

\* dig that deals the tool's full strength whatever hp the cell has left
dig_overkill(s, tape) ==
    LET cell == target_cell(s)
        xy == target_xy(s)
        tool == IF cell.item # "None" /\ ItemTypeOf(cell.item) = "ore"
                THEN s.pickaxe ELSE s.shovel
        hp_dealt == HP_UNIT * ToolStrength(tool)
        s1 == [s EXCEPT
                 !.grid = grid_set(@, xy[1], xy[2], [cell EXCEPT !.hp = @ - hp_dealt]),
                 !.stamina = @ - 1]
        through == target_cell(s1).hp <= 0
        m == move(s1, tape[1])
        f == FallLoop(m.s, tape, 1)
        c == collect_target(s1)
    IN  IF through /\ s.target = "down"
        THEN [s |-> f.s, through |-> TRUE, hp_dealt |-> hp_dealt, out |-> m.out,
              used |-> f.used, exhausted |-> f.exhausted]
        ELSE IF through
        THEN [s |-> c.s, through |-> TRUE, hp_dealt |-> hp_dealt, out |-> c.out,
              used |-> 0, exhausted |-> FALSE]
        ELSE [s |-> s1, through |-> FALSE, hp_dealt |-> hp_dealt, out |-> OutNone,
              used |-> 0, exhausted |-> FALSE]

\* the session part of TargetActionRow.dig; the target cell is not None
dig(s, tape) ==
    LET cell == target_cell(s)
        xy == target_xy(s)
        tool == IF cell.item # "None" /\ ItemTypeOf(cell.item) = "ore"
                THEN s.pickaxe ELSE s.shovel
        hp_dealt == Min(HP_UNIT * ToolStrength(tool), cell.hp)
        s1 == [s EXCEPT
                 !.grid = grid_set(@, xy[1], xy[2], [cell EXCEPT !.hp = @ - hp_dealt]),
                 !.stamina = @ - 1]
        through == target_cell(s1).hp <= 0
        m == move(s1, tape[1])
        f == FallLoop(m.s, tape, 1)
        c == collect_target(s1)
    IN  IF through /\ s.target = "down"
        THEN [s |-> f.s, through |-> TRUE, hp_dealt |-> hp_dealt, out |-> m.out,
              used |-> f.used, exhausted |-> f.exhausted]
        ELSE IF through
        THEN [s |-> c.s, through |-> TRUE, hp_dealt |-> hp_dealt, out |-> c.out,
              used |-> 0, exhausted |-> FALSE]
        ELSE [s |-> s1, through |-> FALSE, hp_dealt |-> hp_dealt, out |-> OutNone,
              used |-> 0, exhausted |-> FALSE]

Dig ==
    /\ ~finished /\ shown.dig_shown /\ ~shown.dig_disabled
    /\ ~target_cell_raises(session)
    /\ target_cell(session) # NoneCell
    /\ \E tape \in Tapes : \E d \in {dig(session, tape)} :
         \* hp not yet 0: only update_header and update_target_info
         LET part == update_target_info(mem, d.s)
         IN  /\ ~d.exhausted
             /\ pos_y(d.s) <= MaxY
             /\ session' = d.s
             /\ IF d.through
                THEN Refresh(d.s, inv)
                ELSE mem' = part /\ shown' = part
    /\ UNCHANGED <<inv, finished, pending, tasks, store, fn>>

(***************************************************************************)
(* DiggingActionRow: railgun, dynamite, surface                            *)
(***************************************************************************)
\* DiggingActionRow.railgun
Railgun ==
    /\ ~finished /\ shown.action_shown /\ shown.railgun_shown /\ ~shown.railgun_disabled
    /\ inv.railgun >= 1
    /\ ~inv.railgun_cooldown
    /\ \E tape \in Tapes : \E r \in {cascading_dig(session, RAILGUN_HP, tape)} :
         LET iv2 == [inv EXCEPT !.railgun_cooldown = TRUE]
         IN  /\ ~r.exhausted
             /\ pos_y(r.s) <= MaxY
             /\ session' = r.s
             /\ inv' = iv2
             /\ Refresh(r.s, iv2)
    /\ UNCHANGED <<finished, pending, tasks, store, fn>>

\* an hour passes: record.railgun_expiry is in the past
CooldownExpires ==
    /\ inv.railgun_cooldown
    /\ inv' = [inv EXCEPT !.railgun_cooldown = FALSE]
    /\ UNCHANGED <<session, mem, shown, finished, pending, tasks, store, fn>>

\* DiggingActionRow.dynamite
Dynamite ==
    /\ ~finished /\ shown.action_shown /\ ~shown.dynamite_disabled
    /\ inv.dynamite > 0
    /\ \E tape \in Tapes :
       \E r \in {surrounding_dig(session, DYNAMITE_HP, DYNAMITE_RADIUS, tape)} :
         LET iv2 == [inv EXCEPT !.dynamite = @ - 1]
         IN  /\ ~r.exhausted
             /\ pos_y(r.s) <= MaxY
             /\ session' = r.s
             /\ inv' = iv2
             /\ IF r.raised THEN UNCHANGED <<mem, shown>> ELSE Refresh(r.s, iv2)
    /\ UNCHANGED <<finished, pending, tasks, store, fn>>

\* DiggingActionRow.base_surface
base_surface ==
    LET ui == container_update(mem, session, inv, TRUE).ui
        \* record.add_coins returns round(coins * multiplier); the multiplier is 1
        coins == session.collected_coins
    IN  /\ finished' = TRUE
        /\ mem' = ui
        /\ shown' = ui
        /\ session' = [session EXCEPT !.position = <<pos_x(session), -1>>,
                                      !.collected_coins = coins]
        /\ store' = [wallet |-> store.wallet + coins,
                     items |-> [i \in ITEMS |->
                                  store.items[i] + session.collected_items[i]],
                     flushes |-> store.flushes + 1]

\* the surface button asks for confirmation while stamina and space are left
NeedsConfirm(s) ==
    /\ 2 * s.stamina > s.max_stamina
    /\ 2 * backpack_occupied(s) < s.capacity

\* DiggingActionRow.surface, up to its first await
Surface ==
    /\ ~finished /\ shown.action_shown
    /\ IF NeedsConfirm(session)
       THEN /\ pending < MaxPending
            /\ pending' = pending + 1
            /\ UNCHANGED <<session, mem, shown, finished, store>>
       ELSE base_surface /\ UNCHANGED pending
    /\ UNCHANGED <<inv, tasks, fn>>

\* ctx.confirm returns True: the handler goes on to base_surface
ConfirmYes ==
    /\ pending > 0
    /\ pending' = pending - 1
    /\ base_surface
    /\ UNCHANGED <<inv, tasks, fn>>

\* ctx.confirm returns False (the user declines or the prompt times out)
ConfirmNo ==
    /\ pending > 0
    /\ pending' = pending - 1
    /\ UNCHANGED <<session, inv, mem, shown, finished, tasks, store, fn>>

\* on_timeout that stops the view without surfacing
Timeout_idle ==
    /\ ~finished
    /\ finished' = TRUE
    /\ UNCHANGED <<session, inv, mem, shown, pending, tasks, store, fn>>

\* DiggingView.on_timeout
Timeout ==
    /\ ~finished
    /\ base_surface
    /\ UNCHANGED <<inv, pending, tasks, fn>>

\* the buttons that act on the session
Play == Left \/ Right \/ Down \/ Dig \/ Railgun \/ Dynamite

\* the session while it is played, before it is surfaced
SpecPlay == Init /\ [][Play]_vars

Next ==
    \/ Left \/ Right \/ Down \/ Dig \/ Railgun \/ CooldownExpires \/ Dynamite
    \/ Surface \/ ConfirmYes \/ ConfirmNo \/ Timeout

Spec == Init /\ [][Next]_vars

\* a session that is never surfaced by hand: the player clicks or leaves the
\* message alone, and the view's timer (timeout=600, restarted by every
\* interaction) fires once the player has been idle for that long
NextIdle ==
    \/ Left \/ Right \/ Down \/ Dig \/ Railgun \/ CooldownExpires \/ Dynamite
    \/ Timeout

SpecIdle == Init /\ [][NextIdle]_vars /\ WF_vars(Timeout)

(***************************************************************************)
(* The handlers as coroutines.  discord.py runs the callback of every      *)
(* interaction as a task of its own, so a handler that awaits the database *)
(* before it is done with the session is suspended there while the         *)
(* handlers of other clicks run.  The player has an active dig_hp quest.   *)
(*   dig       awaits quest.add_progress(int(hp_dealt)) between the damage *)
(*             and the test of the target cell, when int(hp_dealt) >= 1;   *)
(*   railgun   awaits record.update(railgun_cooldown_expires_at=...), which*)
(*             sets the cooldown in record.data when the row comes back,   *)
(*             before cascading_dig;                                       *)
(*   dynamite  awaits inventory.add_item(dynamite, -1), which sets the     *)
(*             cached count when the row comes back, before                *)
(*             surrounding_dig.                                            *)
(* tasks holds the suspended handlers in the order they were started, xy   *)
(* being the coordinate of the cell a dig has damaged, and the number of   *)
(* handlers that have reached their await so far.                          *)
(***************************************************************************)
\* dig, railgun and dynamite handlers that reach their await in one session
MaxTasks == 2

\* a suspended railgun or dynamite handler
Task(op) == [op |-> op, xy |-> <<0, 0>>]

\* a suspended dig handler that damaged the cell at xy
DigTask(xy) == [op |-> "dig", xy |-> xy]

\* tasks once the handler task is suspended at its await
Suspend(task) ==
    [suspended |-> Append(tasks.suspended, task), started |-> tasks.started + 1]

\* the i-th suspended handler is one of op
Suspended(i, op) == tasks.suspended[i].op = op

\* tasks once the i-th suspended handler has gone on
Resumed(i) ==
    [tasks EXCEPT !.suspended = SubSeq(@, 1, i - 1) \o SubSeq(@, i + 1, Len(@))]

\* TargetActionRow.dig up to the await; the target cell is not None
dig_damage(s) ==
    LET cell == target_cell(s)
        xy == target_xy(s)
        tool == IF cell.item # "None" /\ ItemTypeOf(cell.item) = "ore"
                THEN s.pickaxe ELSE s.shovel
        hp_dealt == Min(HP_UNIT * ToolStrength(tool), cell.hp)
    IN  [s |-> [s EXCEPT
                  !.grid = grid_set(@, xy[1], xy[2], [cell EXCEPT !.hp = @ - hp_dealt]),
                  !.stamina = @ - 1],
         xy |-> xy, hp_dealt |-> hp_dealt]

\* TargetActionRow.dig after the await, on the session as it is by then;
\* raised: session.target_cell.hp raised (IndexError, or the cell is None)
dig_settle(s, tape) ==
    IF target_cell_raises(s) \/ target_cell(s) = NoneCell
    THEN [s |-> s, raised |-> TRUE, through |-> FALSE, used |-> 0, exhausted |-> FALSE]
    ELSE
    LET through == target_cell(s).hp <= 0
        m == move(s, tape[1])
        f == FallLoop(m.s, tape, 1)
        c == collect_target(s)
    IN  IF through /\ s.target = "down"
        THEN [s |-> f.s, raised |-> FALSE, through |-> TRUE,
              used |-> f.used, exhausted |-> f.exhausted]
        ELSE IF through
        THEN [s |-> c.s, raised |-> FALSE, through |-> TRUE, used |-> 0, exhausted |-> FALSE]
        ELSE [s |-> s, raised |-> FALSE, through |-> FALSE, used |-> 0, exhausted |-> FALSE]

\* the rest of the dig handler on the session s1
DigSettle(s1) ==
    \E tape \in Tapes : \E d \in {dig_settle(s1, tape)} :
        /\ ~d.exhausted
        /\ pos_y(d.s) <= MaxY
        /\ session' = d.s
        /\ IF d.raised THEN UNCHANGED <<mem, shown>>
           ELSE IF d.through THEN Refresh(d.s, inv)
           ELSE \E part \in {update_target_info(mem, d.s)} : mem' = part /\ shown' = part

\* a click on Dig: the handler runs up to its await, or to its end when
\* add_progress has nothing to add
DigStart ==
    /\ ~finished /\ shown.dig_shown /\ ~shown.dig_disabled
    /\ ~target_cell_raises(session)
    /\ target_cell(session) # NoneCell
    /\ \E d \in {dig_damage(session)} :
         IF d.hp_dealt >= HP_UNIT
         THEN /\ tasks.started < MaxTasks
              /\ session' = d.s
              /\ tasks' = Suspend(DigTask(d.xy))
              /\ UNCHANGED <<mem, shown>>
         ELSE DigSettle(d.s) /\ UNCHANGED tasks
    /\ UNCHANGED <<inv, finished, pending, store, fn>>

\* quest.add_progress returns to a suspended dig handler
DigResume ==
    /\ \E i \in DOMAIN tasks.suspended :
         /\ Suspended(i, "dig")
         /\ tasks' = Resumed(i)
    /\ DigSettle(session)
    /\ UNCHANGED <<inv, finished, pending, store, fn>>

\* a click on the railgun: the checks pass and the handler awaits record.update
RailgunStart ==
    /\ ~finished /\ shown.action_shown /\ shown.railgun_shown /\ ~shown.railgun_disabled
    /\ inv.railgun >= 1
    /\ ~inv.railgun_cooldown
    /\ tasks.started < MaxTasks
    /\ tasks' = Suspend(Task("railgun"))
    /\ UNCHANGED <<session, inv, mem, shown, finished, pending, store, fn>>

\* record.update returns: the cooldown is in record.data, cascading_dig runs
RailgunResume ==
    /\ \E i \in DOMAIN tasks.suspended :
         /\ Suspended(i, "railgun")
         /\ tasks' = Resumed(i)
    /\ \E tape \in Tapes : \E r \in {cascading_dig(session, RAILGUN_HP, tape)} :
         \E iv2 \in {[inv EXCEPT !.railgun_cooldown = TRUE]} :
             /\ ~r.exhausted
             /\ pos_y(r.s) <= MaxY
             /\ session' = r.s
             /\ inv' = iv2
             /\ Refresh(r.s, iv2)
    /\ UNCHANGED <<finished, pending, store, fn>>

\* a click on the dynamite: the check passes and the handler awaits add_item
DynamiteStart ==
    /\ ~finished /\ shown.action_shown /\ ~shown.dynamite_disabled
    /\ inv.dynamite > 0
    /\ tasks.started < MaxTasks
    /\ tasks' = Suspend(Task("dynamite"))
    /\ UNCHANGED <<session, inv, mem, shown, finished, pending, store, fn>>

\* add_item returns: the count is one less, surrounding_dig runs
DynamiteResume ==
    /\ \E i \in DOMAIN tasks.suspended :
         /\ Suspended(i, "dynamite")
         /\ tasks' = Resumed(i)
    /\ \E tape \in Tapes :
       \E r \in {surrounding_dig(session, DYNAMITE_HP, DYNAMITE_RADIUS, tape)} :
         \E iv2 \in {[inv EXCEPT !.dynamite = @ - 1]} :
             /\ ~r.exhausted
             /\ pos_y(r.s) <= MaxY
             /\ session' = r.s
             /\ inv' = iv2
             /\ IF r.raised THEN UNCHANGED <<mem, shown>> ELSE Refresh(r.s, iv2)
    /\ UNCHANGED <<finished, pending, store, fn>>

NextAsync ==
    \/ Left \/ Right \/ Down \/ DigStart \/ DigResume
    \/ RailgunStart \/ RailgunResume \/ CooldownExpires
    \/ DynamiteStart \/ DynamiteResume

\* the session played through handlers that interleave at their awaits
\* a backyard with two relics one above the other in the player's column, so
\* that two shots of the railgun end within MaxFall rows each
RelicColumn ==
    <<<<"shovel", "pickaxe">>,
      <<SpawnAt(4, "ancient_relic"), SpawnAt(4, "ancient_relic"), NoSpawn, NoSpawn>>>>

InitAsync ==
    \E c \in InitCases \cup {RelicColumn} : InitWith(prepare(c[1], c[2]), NoCall)

SpecAsync == InitAsync /\ [][NextAsync]_vars

(***************************************************************************)
(* DiggingSession called directly, the way a test drives it: target is     *)
(* assigned, then move, collect, cascading_dig or surrounding_dig is       *)
(* called.  The calls are not gated by the view; the driver keeps the      *)
(* player inside the columns of the grid.                                  *)
(***************************************************************************)
\* direct calls made on one session
MaxCalls == 4

\* total_hp passed to cascading_dig
CascadeBudgets == {5, RAILGUN_HP}

Call(op, args, ret) == [op |-> op, n |-> fn.n + 1, args |-> args, ret |-> ret]

ApiFrame ==
    /\ fn.n < MaxCalls
    /\ UNCHANGED <<inv, mem, shown, finished, pending, tasks, store>>

\* session.target = t
SetTarget ==
    /\ \E t \in {"left", "right", "down"} :
         /\ t # session.target
         /\ session' = [session EXCEPT !.target = t]
         /\ fn' = Call("target", [target |-> t], OutNone)
    /\ ApiFrame

\* session.move()
Move ==
    /\ target_xy(session)[1] \in Cols
    /\ \E rnd \in AppendRnd :
       \E m \in {move(session, rnd)} :
             /\ pos_y(m.s) <= MaxY
             /\ session' = m.s
             /\ fn' = Call("move", [target |-> session.target], m.out)
    /\ ApiFrame

\* session.collect(x, y), on a slot next to the player
Collect ==
    /\ \E xx \in {pos_x(session) - 1, pos_x(session), pos_x(session) + 1},
          yy \in {pos_y(session), pos_y(session) + 1} :
         /\ xx \in Cols /\ yy >= 0
         /\ ~grid_raises(session.grid, xx, yy)
         /\ \E c \in {collect(session, xx, yy)} :
                /\ session' = c.s
                /\ fn' = Call("collect", [x |-> xx, y |-> yy], c.out)
    /\ ApiFrame

\* session.cascading_dig(total_hp)
CascadingDig ==
    /\ \E total_hp \in CascadeBudgets :
       \E tape \in Tapes : \E r \in {cascading_dig(session, total_hp, tape)} :
             /\ ~r.exhausted
             /\ pos_y(r.s) <= MaxY
             /\ session' = r.s
             /\ fn' = Call("cascading_dig", [total_hp |-> total_hp],
                           [added_coins |-> r.added_coins,
                            added_items |-> r.added_items,
                            progress |-> HP_UNIT * total_hp - r.remaining])
    /\ ApiFrame

\* session.surrounding_dig(DYNAMITE_HP, radius=DYNAMITE_RADIUS)
SurroundingDig ==
    /\ \E tape \in Tapes :
       \E r \in {surrounding_dig(session, DYNAMITE_HP, DYNAMITE_RADIUS, tape)} :
             /\ ~r.exhausted
             /\ ~r.raised
             /\ pos_y(r.s) <= MaxY
             /\ session' = r.s
             /\ fn' = Call("surrounding_dig",
                           [base_hp |-> DYNAMITE_HP, radius |-> DYNAMITE_RADIUS],
                           [total_hp |-> r.total_hp, added_coins |-> r.added_coins,
                            added_items |-> r.added_items])
    /\ ApiFrame

Api == SetTarget \/ Move \/ Collect \/ CascadingDig \/ SurroundingDig

SpecApi == Init /\ [][Api]_vars

\* the deepest row of a descent
MaxDepth == 5

\* session.move() with the target down, row after row
Descend ==
    /\ session.target = "down"
    /\ \E rnd \in AppendRnd :
       \E m \in {move(session, rnd)} :
             /\ pos_y(m.s) <= MaxDepth
             /\ session' = m.s
             /\ fn' = Call("move", [target |-> "down"], m.out)
    /\ UNCHANGED <<inv, mem, shown, finished, pending, tasks, store>>

\* the player walks along the surface before going down
WalkLeft ==
    /\ pos_y(session) < 0
    /\ Left

WalkRight ==
    /\ pos_y(session) < 0
    /\ Right

\* a descent straight down from any column, deep enough for the window to
\* scroll past the first rows
SpecDescent == Init /\ [][WalkLeft \/ WalkRight \/ Descend]_vars

(***************************************************************************)
(* Pure functions called on their own.  fn records the call: its           *)
(* arguments, the random draws it consumed and what it returned.           *)
(***************************************************************************)
\* a call about to be made: its arguments are drawn, nothing is returned yet
Pending(op, args) == [op |-> op, n |-> 0, args |-> args, ret |-> "pending"]

\* the session of a view no button of which is pressed
InitCall(f) ==
    InitWith(prepare(<<"None", "None">>, <<NoSpawn, NoSpawn, NoSpawn, NoSpawn>>), f)

\* the call op is pending
Calling(op) == fn.op = op /\ fn.n = 0

\* the pending call returns ret
Returned(ret) == [fn EXCEPT !.n = 1, !.ret = ret]

PureFrame == UNCHANGED <<session, inv, mem, shown, finished, pending, tasks, store>>

\* ---- DiggingSession.cascading_dig, one iteration of its loop at a time ----
\* the largest total_hp passed to cascading_dig
MaxBudget == 3

\* the most rows in a row that generate_row makes with coins under the player
MaxCoinRun == 2

\* calls of cascading_dig on one session
MaxCascades == 2

\* the random outcomes of the row an iteration appends: no spawn, or coins in
\* the player's column while the run of such rows is shorter than MaxCoinRun
CascadeRnds(s, run) ==
    {NoSpawn} \cup (IF run < MaxCoinRun THEN {SpawnAt(pos_x(s), "None")} ELSE {})

\* an iteration that stays where it is above a cell without hp
cascade_iteration_stuck(s, remaining, rnd) ==
    LET tc == target_cell(s) IN
    IF tc # NoneCell /\ tc.hp = 0
    THEN [s |-> s, remaining |-> remaining, broke |-> FALSE]
    ELSE IF tc = NoneCell \/ remaining >= tc.hp
    THEN LET rem2 == IF tc # NoneCell THEN remaining - tc.hp ELSE remaining IN
         IF tc # NoneCell /\ Overflows(s, tc)
         THEN [s |-> s, remaining |-> rem2, broke |-> TRUE]
         ELSE [s |-> move(s, rnd).s, remaining |-> rem2, broke |-> FALSE]
    ELSE LET xy == target_xy(s)
         IN  [s |-> [s EXCEPT !.grid =
                        grid_set(@, xy[1], xy[2], [tc EXCEPT !.hp = @ - remaining])],
              remaining |-> 0, broke |-> FALSE]

\* the body of "while remaining > 0" in cascading_dig
cascade_iteration(s, remaining, rnd) ==
    LET tc == target_cell(s) IN
    IF tc = NoneCell \/ remaining >= tc.hp
    THEN LET rem2 == IF tc # NoneCell THEN remaining - tc.hp ELSE remaining IN
         IF tc # NoneCell /\ Overflows(s, tc)
         THEN [s |-> s, remaining |-> rem2, broke |-> TRUE]
         ELSE [s |-> move(s, rnd).s, remaining |-> rem2, broke |-> FALSE]
    ELSE LET xy == target_xy(s)
         IN  [s |-> [s EXCEPT !.grid =
                        grid_set(@, xy[1], xy[2], [tc EXCEPT !.hp = @ - remaining])],
              remaining |-> 0, broke |-> FALSE]

\* cascading_dig is in its loop
InCascade == fn.op = "cascading_dig" /\ fn.ret = "pending"

\* cascading_dig(total_hp) is called: the target is set down
CascadeCall ==
    /\ ~InCascade
    /\ fn.n < MaxCascades
    /\ \E total_hp \in 1 .. MaxBudget :
         /\ session' = [session EXCEPT !.target = "down"]
         /\ fn' = [op |-> "cascading_dig", n |-> fn.n + 1,
                   args |-> [total_hp |-> total_hp, remaining |-> HP_UNIT * total_hp,
                             run |-> 0],
                   ret |-> "pending"]
    /\ PureFrame

\* one iteration; the call returns when it breaks or leaves remaining <= 0
CascadeStep ==
    /\ InCascade
    /\ \E rnd \in CascadeRnds(session, fn.args.run) :
       \E it \in {cascade_iteration(session, fn.args.remaining, rnd)} :
         /\ session' = it.s
         /\ fn' = [fn EXCEPT
                     !.args.remaining = it.remaining,
                     !.args.run = IF Len(it.s.grid) = Len(session.grid) THEN @
                                  ELSE IF rnd = NoSpawn THEN 0 ELSE @ + 1,
                     !.ret = IF it.broke \/ it.remaining <= 0
                             THEN "returned" ELSE "pending"]
    /\ UNCHANGED <<inv, mem, shown, finished, pending, tasks, store>>

\* the loop runs on once it is entered: the code is synchronous
SpecCascade == Init /\ [][CascadeCall \/ CascadeStep]_vars /\ WF_vars(CascadeStep)

\* ---- Biome.get_layer ----
\* get_layer is called with -MaxLayerY <= y <= MaxLayerY
MaxLayerY == 105

\* Biomes: the depths of the layers of each biome
BiomeDepths == [backyard |-> BackyardDepths, desert |-> DesertDepths]

InitLayer ==
    \E b \in DOMAIN BiomeDepths, yy \in (0 - MaxLayerY) .. MaxLayerY :
        InitCall(Pending("get_layer", [biome |-> b, y |-> yy]))

GetLayer ==
    /\ Calling("get_layer")
    /\ fn' = Returned(get_layer(BiomeDepths[fn.args.biome], fn.args.y))
    /\ PureFrame

SpecLayer == InitLayer /\ [][GetLayer]_vars

\* ---- DiggingSession.generate_row ----
\* generate_row is called with 0 <= y <= MaxRowY
MaxRowY == 21

\* the random outcomes of one generate_row: n spawns from column p on, two
\* columns apart, the odd ones of the item drawn (None: coins), the even ones
\* coins, with the uniform draw at point u
SpawnsOf(n, p, item, u) ==
    [i \in 1 .. n |->
        [pos |-> (p + 2 * (i - 1)) % GRID_WIDTH,
         item |-> IF i % 2 = 1 THEN item ELSE "None",
         u |-> u]]

RowRnds ==
    {NoSpawn} \cup
    { SpawnsOf(n, p, item, u) :
        n \in weighted_choice_outcomes(SPAWN_COUNT) \ {0}, p \in {0, 4, 8},
        item \in BackyardLayerItems, u \in 0 .. 2 }

InitRow ==
    \E yy \in 0 .. MaxRowY, rnd \in RowRnds :
        /\ WellFormedRnd(rnd)
        /\ InitCall(Pending("generate_row", [y |-> yy, rnd |-> rnd]))

GenerateRow ==
    /\ Calling("generate_row")
    /\ fn' = Returned(generate_row(fn.args.y, fn.args.rnd))
    /\ PureFrame

SpecRow == InitRow /\ [][GenerateRow]_vars

\* ---- weighted_sample (app/features/wheel.py, app/extensions/profit.py) ----
\* weights of a table are 0 .. MaxWeight
MaxWeight == 2
\* keys asked for
MaxK == 2
\* values random.choices hands to one call of profit's weighted_sample
MaxChoices == 3

SampleKeys == <<"a", "b", "c">>

\* the tables sampled: a dict as the sequence of its <<key, weight>> items
SampleTables ==
    { [i \in 1 .. Len(SampleKeys) |-> <<SampleKeys[i], w[i]>>] :
        w \in [1 .. Len(SampleKeys) -> 0 .. MaxWeight] }

Positive(src) == {i \in 1 .. Len(src) : src[i][2] > 0}

\* sum(src.values())
RECURSIVE SumWeights(_)
SumWeights(src) == IF src = << >> THEN 0 ELSE Head(src)[2] + SumWeights(Tail(src))

\* the inner for loop of wheel.weighted_sample from item i on: the index of the
\* first item with r < cumulative_weight, 0 when the loop ends without a break
RECURSIVE WheelScan(_, _, _, _)
WheelScan(src, r, i, cumulative_weight) ==
    IF i > Len(src) THEN 0
    ELSE IF r < cumulative_weight + src[i][2] THEN i
    ELSE WheelScan(src, r, i + 1, cumulative_weight + src[i][2])

\* src.pop(item)
PopAt(src, i) == SubSeq(src, 1, i - 1) \o SubSeq(src, i + 1, Len(src))

\* the outer for loop of wheel.weighted_sample; draws[round] is what
\* random.uniform(0, sum(src.values())) returns in that round, valid: every
\* draw lies in the range uniform documents, 0 <= r <= sum
RECURSIVE WheelLoop(_, _, _, _)
WheelLoop(round, src, draws, choices) ==
    IF round > Len(draws) THEN [choices |-> choices, valid |-> TRUE]
    ELSE LET r == draws[round]
             i == WheelScan(src, r, 1, 0)
         IN  IF r > SumWeights(src) THEN [choices |-> choices, valid |-> FALSE]
             ELSE IF i = 0 THEN WheelLoop(round + 1, src, draws, choices)
             ELSE WheelLoop(round + 1, PopAt(src, i), draws, Append(choices, src[i][1]))

\* wheel.weighted_sample(k, src), k = Len(draws)
wheel_weighted_sample(src, draws) == WheelLoop(1, src, draws, << >>)

\* the for loop of profit's weighted_sample over one result of random.choices
RECURSIVE ChoicesLoop(_, _, _, _)
ChoicesLoop(weights, indices, batch, j) ==
    IF j > Len(batch) THEN [weights |-> weights, indices |-> indices]
    ELSE LET i == batch[j]
         IN  IF weights[i] # 0
             THEN ChoicesLoop([weights EXCEPT ![i] = 0], Append(indices, i), batch, j + 1)
             ELSE ChoicesLoop(weights, indices, batch, j + 1)

\* the while loop of profit's weighted_sample; tape holds what the calls of
\* random.choices return, valid: each value is a position of positive weight
\* at the time of its call, exhausted: the tape ended before the loop did
RECURSIVE SampleLoop(_, _, _, _, _)
SampleLoop(weights, indices, k, tape, used) ==
    LET needed == k - Len(indices)
        batch == SubSeq(tape, used + 1, used + needed)
        b == ChoicesLoop(weights, indices, batch, 1)
    IN  IF needed = 0
        THEN [indices |-> indices, valid |-> TRUE, exhausted |-> FALSE]
        ELSE IF used + needed > Len(tape)
        THEN [indices |-> indices, valid |-> TRUE, exhausted |-> TRUE]
        ELSE IF \E j \in 1 .. needed : weights[batch[j]] = 0
        THEN [indices |-> indices, valid |-> FALSE, exhausted |-> FALSE]
        ELSE SampleLoop(b.weights, b.indices, k, tape, used + needed)

\* Profit.weighted_sample(population, weights, k); returns the keys
profit_weighted_sample(src, k, tape) ==
    LET r == SampleLoop([i \in 1 .. Len(src) |-> src[i][2]], << >>, k, tape, 0)
    IN  [choices |-> [j \in 1 .. Len(r.indices) |-> src[r.indices[j]][1]],
         valid |-> r.valid, exhausted |-> r.exhausted]

\* a table with at least k keys of positive weight, and the draws of one call
InitSample ==
    \E src \in SampleTables, k \in 1 .. MaxK :
        /\ Cardinality(Positive(src)) >= k
        /\ \/ \E draws \in [1 .. k -> 0 .. (Len(SampleKeys) * MaxWeight)] :
                /\ wheel_weighted_sample(src, draws).valid
                /\ InitCall(Pending("wheel.weighted_sample",
                                    [src |-> src, k |-> k, draws |-> draws]))
           \/ \E tape \in [1 .. MaxChoices -> 1 .. Len(SampleKeys)] :
                LET r == profit_weighted_sample(src, k, tape)
                IN  /\ r.valid /\ ~r.exhausted
                    /\ InitCall(Pending("profit.weighted_sample",
                                        [src |-> src, k |-> k, draws |-> tape]))

WheelSample ==
    /\ Calling("wheel.weighted_sample")
    /\ fn' = Returned(wheel_weighted_sample(fn.args.src, fn.args.draws).choices)
    /\ PureFrame

ProfitSample ==
    /\ Calling("profit.weighted_sample")
    /\ fn' = Returned(profit_weighted_sample(fn.args.src, fn.args.k, fn.args.draws).choices)
    /\ PureFrame

SpecSample == InitSample /\ [][WheelSample \/ ProfitSample]_vars

(***************************************************************************)
(* Properties.                                                             *)
(***************************************************************************)
\* C1: in every state reached by the buttons of the view, handled one at a
\* time (navigation, the gated dig, the railgun's cascading_dig and the
\* dynamite's surrounding_dig), backpack_occupied, the sum over the items of
\* collected_items[i] * i.volume, is at most backpack.capacity.
BackpackWithinCapacity == backpack_occupied(session) <= session.capacity

\* the dynamite has gone off and the backpack is filled to its capacity
BackpackFilled ==
    /\ inv.dynamite < MaxDynamite
    /\ backpack_occupied(session) = session.capacity

\* C2: whatever order Surface clicks, answers to the surface confirmation and
\* the view timeout come in, base_surface applies the session's totals to
\* persistent storage at most once: the wallet never holds more than the
\* session's collected_coins, the inventory never more than collected_items.
TotalsAppliedAtMostOnce ==
    /\ store.wallet <= session.collected_coins
    /\ \A i \in ITEMS : store.items[i] <= session.collected_items[i]

\* C3: get_layer(y) returns the layer of greatest depth <= max(y, 0), also
\* when y is the depth of a layer, and layers[0] when y < 1.
GetLayerGreatestDepth ==
    (fn.op = "get_layer" /\ fn.n = 1) =>
        LET depths == BiomeDepths[fn.args.biome]
            m == Max(fn.args.y, 0)
            k == fn.ret + 1
        IN  /\ k \in 1 .. Len(depths)
            /\ depths[k] <= m
            /\ \A j \in 1 .. Len(depths) : depths[j] <= m => depths[j] <= depths[k]
            /\ fn.args.y < 1 => k = 1

\* C4: a call of move() leaves position at the target coordinate computed
\* before the call; len(grid) grows by exactly one when the target was down
\* and is unchanged when it was left or right.
MoveReachesTarget ==
    [][ (fn'.op = "move" /\ fn'.n = fn.n + 1) =>
           /\ session'.position = target_xy(session)
           /\ Len(session'.grid) =
                 Len(session.grid) + (IF session.target = "down" THEN 1 ELSE 0)
      ]_vars

\* move() went down to row 0 and then left along it
MovedDownThenLeft ==
    /\ fn.op = "move" /\ fn.n = 3 /\ fn.args.target = "left"
    /\ session.position = <<(GRID_WIDTH \div 2) - 1, 0>>
    /\ Len(session.grid) = Len(prepare(<<"None", "None">>,
                                       <<NoSpawn, NoSpawn, NoSpawn, NoSpawn>>).grid) + 1

\* C5: collect(x, y) leaves the slot None; on a slot that is already None it
\* returns None and changes neither collected_coins nor collected_items nor
\* any slot of the grid, so a second collect of a coordinate adds nothing.
CollectOnceOnly ==
    [][ (fn'.op = "collect" /\ fn'.n = fn.n + 1) =>
           /\ grid_at(session'.grid, fn'.args.x, fn'.args.y) = NoneCell
           /\ grid_at(session.grid, fn'.args.x, fn'.args.y) = NoneCell =>
                 /\ fn'.ret = OutNone
                 /\ session'.collected_coins = session.collected_coins
                 /\ session'.collected_items = session.collected_items
                 /\ session'.grid = session.grid
      ]_vars

\* the same slot was collected twice: the second call returned None and the
\* backpack holds the one dirt of the first
CollectedTwice ==
    /\ fn.op = "collect" /\ fn.n = 2 /\ fn.ret = OutNone
    /\ session.collected_items["dirt"] = 1
    /\ backpack_occupied(session) = 1

\* C6: a row generate_row(y) returns, y >= 0, has GRID_WIDTH entries, none of
\* them None, each with hp >= 0, coins >= 0 and not both coins > 0 and an item;
\* the row of y = 0 holds only the dirt cells of the layer.
RowWellFormed ==
    (fn.op = "generate_row" /\ fn.n = 1) =>
        LET row == fn.ret
            dirt == BackyardDirt[1]
        IN  /\ Len(row) = GRID_WIDTH
            /\ \A c \in 1 .. Len(row) :
                  /\ row[c] # NoneCell
                  /\ row[c].hp >= 0
                  /\ row[c].coins >= 0
                  /\ ~(row[c].coins > 0 /\ row[c].item # "None")
            /\ fn.args.y = 0 =>
                  \A c \in 1 .. Len(row) : row[c] = Cell(0, dirt, HP_UNIT * ItemHp(dirt))

\* a row below a layer boundary with a coin cell and an item that is no dirt
RowWithCoinsAndItem ==
    /\ fn.op = "generate_row" /\ fn.n = 1 /\ fn.args.y > BackyardDepths[2]
    /\ \E c \in 1 .. GRID_WIDTH : fn.ret[c].coins > 0
    /\ \E c \in 1 .. GRID_WIDTH : fn.ret[c].item \notin DirtItems \cup {"None"}

\* C7: when a dig brings the hp of the down target to 0 the player falls:
\* the slot of the target becomes None and its contents are collected,
\* position.x is unchanged, position.y grows by at least 1, every slot fallen
\* through is None and the fall stops above the first slot that is not None.
\* From (4, -1), row 0 all dirt of hp 1 and a tool of strength 1, one dig
\* leaves the player at (4, 0) with grid[0][4] None.
DigFallsThrough ==
    [][ LET xy == target_xy(session)
            cell == target_cell(session)
            left == grid_at(session'.grid, xy[1], xy[2])
            y2 == pos_y(session')
        IN  ( /\ session'.stamina = session.stamina - 1
              /\ session.target = "down"
              /\ (left = NoneCell \/ left.hp <= 0) ) =>
                /\ left = NoneCell
                /\ session'.collected_coins = session.collected_coins + cell.coins
                /\ session'.collected_items =
                      IF cell.item = "None" THEN session.collected_items
                      ELSE [session.collected_items EXCEPT ![cell.item] = @ + 1]
                /\ pos_x(session') = pos_x(session)
                /\ y2 >= pos_y(session) + 1
                /\ \A yy \in xy[2] .. y2 :
                      grid_at(session'.grid, xy[1], yy) = NoneCell
                /\ \A yy \in (xy[2] + 1) .. y2 :
                      grid_at(session.grid, xy[1], yy) = NoneCell
                /\ grid_at(session'.grid, xy[1], y2 + 1) # NoneCell
                /\ ( /\ session.position = <<4, -1>>
                     /\ ToolStrength(session.shovel) = 1
                     /\ \A xx \in Cols :
                           grid_at(session.grid, xx, 0) = Cell(0, "dirt", HP_UNIT) ) =>
                       /\ session'.position = <<4, 0>>
                       /\ grid_at(session'.grid, 4, 0) = NoneCell
      ]_vars

\* one dig with bare hands from (4, -1): the player stands at (4, 0), the
\* slot is None, the dirt is in the backpack and a row was appended
DugIntoRowZero ==
    /\ session.position = <<4, 0>> /\ session.target = "down"
    /\ session.shovel = "None"
    /\ session.stamina = session.max_stamina - 1
    /\ inv.dynamite = MaxDynamite /\ ~inv.railgun_cooldown
    /\ grid_at(session.grid, 4, 0) = NoneCell
    /\ \A xx \in Cols \ {4} : grid_at(session.grid, xx, 0) = Cell(0, "dirt", HP_UNIT)
    /\ session.collected_items["dirt"] = 1

\* the cells surrounding_dig visits, in the order of its loops: cell k of the
\* bounding square of the blast around position p
BlastX(p, radius, k) == p[1] - radius + (k % (2 * radius + 1))

BlastY(p, radius, k) == p[2] - radius + (k \div (2 * radius + 1))

BlastDistance(p, radius, k) ==
    (BlastX(p, radius, k) - p[1]) * (BlastX(p, radius, k) - p[1])
    + (BlastY(p, radius, k) - p[2]) * (BlastY(p, radius, k) - p[2])

\* cell k is an in-grid slot off the center, within the radius, that is not None
BlastHit(s, radius, k) ==
    /\ BlastY(s.position, radius, k) >= 0
    /\ BlastY(s.position, radius, k) < Len(s.grid)
    /\ BlastX(s.position, radius, k) \in Cols
    /\ BlastDistance(s.position, radius, k) > 0
    /\ BlastDistance(s.position, radius, k) <= radius * radius
    /\ grid_at(s.grid, BlastX(s.position, radius, k),
               BlastY(s.position, radius, k)) # NoneCell

\* C8: surrounding_dig(base_hp, radius) deals min(cell.hp, base_hp / (dx^2 +
\* dy^2)) to every in-grid slot that is not None with 0 < dx^2 + dy^2 <=
\* radius^2 whose item still fits in the backpack when the loops reach it,
\* collects each such cell whose hp falls to 0 or below, leaves the other
\* cells alone and returns the sum of what it dealt as total_hp.  At (4, 0)
\* on dirt of hp 1 with room for eight items, surrounding_dig(10, radius=2)
\* leaves the eight cells in the radius None and returns their original hp.
BlastDealsDamage ==
    [][ (fn'.op = "surrounding_dig" /\ fn'.n = fn.n + 1) =>
        LET s == session
            radius == fn'.args.radius
            p == s.position
            K == 0 .. ((2 * radius + 1) * (2 * radius + 1) - 1)
            pre(k) == grid_at(s.grid, BlastX(p, radius, k), BlastY(p, radius, k))
            post(k) == grid_at(session'.grid, BlastX(p, radius, k), BlastY(p, radius, k))
            damage(k) == (HP_UNIT * fn'.args.base_hp) \div BlastDistance(p, radius, k)
            volume(k) == IF pre(k).item = "None" THEN 0 ELSE ItemVolume(pre(k).item)
            \* the slots of the grid off the center, within the radius
            around == {k \in K : /\ BlastY(p, radius, k) >= 0
                                 /\ BlastY(p, radius, k) < Len(s.grid)
                                 /\ BlastX(p, radius, k) \in Cols
                                 /\ BlastDistance(p, radius, k) > 0
                                 /\ BlastDistance(p, radius, k) <= radius * radius}
        IN  \* Hits: the cells in reach; Taken: those whose item went into the
            \* backpack; Dealt: those without an item, or whose item fitted when
            \* the loops reached them; Gone: those the damage brought to hp <= 0
            \A Hits \in {{k \in K : BlastHit(s, radius, k)}} :
            \A Taken \in {{k \in Hits : post(k) = NoneCell /\ pre(k).item # "None"}} :
            \A Dealt \in {{k \in Hits :
                            \/ pre(k).item = "None"
                            \/ backpack_occupied(s)
                               + SumOver({j \in Taken : j < k}, [j \in Taken |-> volume(j)])
                               + volume(k) <= s.capacity}} :
            \A Gone \in {{k \in Dealt : pre(k).hp <= damage(k)}} :
            /\ \A k \in Hits \ Dealt : post(k) = pre(k)
            /\ \A k \in Gone : post(k) = NoneCell
            /\ \A k \in Dealt \ Gone :
                  post(k) = [pre(k) EXCEPT !.hp = @ - damage(k)]
            /\ fn'.ret.total_hp =
                  SumOver(Dealt, [k \in Dealt |-> Min(pre(k).hp, damage(k))])
            /\ \A i \in ITEMS :
                  session'.collected_items[i] =
                      s.collected_items[i] + Cardinality({k \in Gone : pre(k).item = i})
            /\ ( /\ p = <<4, 0>>
                 /\ fn'.args.base_hp = 10 /\ radius = 2
                 /\ backpack_occupied(s) + 8 <= s.capacity
                 /\ \A k \in around : pre(k) = Cell(0, "dirt", HP_UNIT) ) =>
                   /\ Cardinality(around) = 8
                   /\ \A k \in around : post(k) = NoneCell
                   /\ fn'.ret.total_hp = 8 * HP_UNIT
      ]_vars

\* surrounding_dig(10, radius=2) went off at (4, 0) in dirt: it dealt the hp
\* of eight cells, whose dirt is in the backpack, and the player fell to (4, 2)
BlastedEightCells ==
    /\ fn.op = "surrounding_dig" /\ fn.n = 2
    /\ fn.ret.total_hp = 8 * HP_UNIT
    /\ fn.ret.added_items["dirt"] = 8
    /\ session.collected_items["dirt"] = 9
    /\ session.position = <<4, 2>>

\* the hp of the slot i rows below the player; a slot that is None has none
ColumnHp(s, i) ==
    LET cell == grid_at(s.grid, pos_x(s), pos_y(s) + i)
    IN  IF cell = NoneCell THEN 0 ELSE cell.hp

\* the hp of the first k slots below the player
RECURSIVE ColumnSum(_, _)
ColumnSum(s, k) == IF k = 0 THEN 0 ELSE ColumnSum(s, k - 1) + ColumnHp(s, k)

\* C9: cascading_dig(total_hp), when every item below fits in the backpack,
\* falls through and collects the successive slots below the player while the
\* budget left is at least the hp of the slot; the first cell it cannot
\* consume loses exactly the budget left and stays, the player above it.
\* cascading_dig(5) over cells of hp 2 collects two of them and leaves the
\* third at hp 1 with the player directly above it.
CascadeSpendsBudget ==
    [][ (fn'.op = "cascading_dig" /\ fn'.n = fn.n + 1) =>
        LET s == session
            budget == HP_UNIT * fn'.args.total_hp
            k == pos_y(session') - pos_y(s)
            pre(i) == grid_at(s.grid, pos_x(s), pos_y(s) + i)
            post(i) == grid_at(session'.grid, pos_x(s), pos_y(s) + i)
            items(n) == {i \in 1 .. n : pre(i) # NoneCell /\ pre(i).item # "None"}
            volume(n) == SumOver(items(n), [i \in items(n) |-> ItemVolume(pre(i).item)])
        IN  /\ ( /\ pos_y(s) + MaxFall + 1 < Len(s.grid)
                 /\ backpack_occupied(s) + volume(MaxFall + 1) <= s.capacity ) =>
                  \A left \in {budget - ColumnSum(s, k)} :
                   /\ k >= 0 /\ pos_x(session') = pos_x(s)
                   /\ \A i \in 1 .. k :
                         /\ ColumnSum(s, i - 1) < budget
                         /\ ColumnSum(s, i) <= budget
                         /\ post(i) = NoneCell
                   /\ left >= 0
                   /\ left > 0 =>
                         /\ pre(k + 1) # NoneCell
                         /\ pre(k + 1).hp > left
                         /\ post(k + 1) = [pre(k + 1) EXCEPT !.hp = @ - left]
                   /\ left = 0 => post(k + 1) = pre(k + 1)
                   /\ \A i \in ITEMS :
                         session'.collected_items[i] =
                             s.collected_items[i]
                             + Cardinality({j \in items(k) : pre(j).item = i})
                   /\ fn'.ret.added_items =
                         [i \in ITEMS |-> Cardinality({j \in items(k) : pre(j).item = i})]
            /\ ( /\ fn'.args.total_hp = 5
                 /\ backpack_occupied(s) + 2 <= s.capacity
                 /\ \A i \in 1 .. 3 :
                       /\ pre(i) # NoneCell
                       /\ pre(i).hp = 2 * HP_UNIT
                       /\ pre(i).item # "None" /\ ItemVolume(pre(i).item) = 1 ) =>
                   /\ k = 2
                   /\ post(1) = NoneCell /\ post(2) = NoneCell
                   /\ post(3) = [pre(3) EXCEPT !.hp = HP_UNIT]
                   /\ session'.position = <<pos_x(s), pos_y(s) + 2>>
                   /\ backpack_occupied(session') = backpack_occupied(s) + 2
      ]_vars

\* cascading_dig(5) ran from (4, 0) over three iron of hp 2: two are in the
\* backpack, the player stands at (4, 2) above the third, which has hp 1 left
CascadedThroughTwo ==
    /\ fn.op = "cascading_dig" /\ fn.args.total_hp = 5
    /\ fn.ret.added_items["iron"] = 2
    /\ session.collected_items["iron"] = 2
    /\ session.position = <<4, 2>>
    /\ grid_at(session.grid, 4, 3) = Cell(0, "iron", HP_UNIT)

\* C10: weighted sampling without replacement of k keys from a table with at
\* least k keys of positive weight returns exactly k keys, pairwise distinct
\* and each of positive weight, whatever the random draws are, a draw equal to
\* the total weight included.
SampleReturnsDistinctKeys ==
    (fn.op \in {"wheel.weighted_sample", "profit.weighted_sample"} /\ fn.n = 1) =>
        LET src == fn.args.src
            ret == fn.ret
        IN  /\ Len(ret) = fn.args.k
            /\ \A i, j \in 1 .. Len(ret) : i # j => ret[i] # ret[j]
            /\ \A i \in 1 .. Len(ret) :
                  \E j \in Positive(src) : src[j][1] = ret[i]

\* C11: during play position.y never decreases: no navigation button, dig,
\* railgun (cascading_dig) or dynamite (surrounding_dig), with the moves they
\* make, takes the player to a row with a smaller y than before.
DepthNeverDecreases == [][pos_y(session') >= pos_y(session)]_vars

\* the player has dug down two rows and walked left through a cleared cell
WalkedLeftUnderground ==
    /\ pos_y(session) = 1
    /\ pos_x(session) = 3
    /\ grid_at(session.grid, 4, 1) = NoneCell

\* C12: with the Dig button disabled whenever stamina <= 0, stamina is >= 0 in
\* every state reached by button actions handled one at a time, and every
\* dig lowers it by exactly 1.
StaminaNeverNegative ==
    /\ [](session.stamina >= 0)
    /\ [][Dig => session'.stamina = session.stamina - 1]_vars

\* the player has dug until stamina is 0 and the Dig button, still shown for
\* the target, is disabled
TooTiredToDig ==
    /\ session.stamina = 0
    /\ shown.dig_shown /\ shown.dig_disabled
    /\ target_cell(session) # NoneCell
    /\ target_cell(session).item = "dirt"
    /\ backpack_occupied(session) + ItemVolume("dirt") <= session.capacity

\* C13: a dig is atomic with respect to other button actions: when the handler
\* goes on from the subtraction of hp to the test for hp <= 0, the session's
\* target is still the cell it damaged, and that cell is not None.
DigTestsDamagedCell ==
    [][ \A i \in DOMAIN tasks.suspended :
          (Suspended(i, "dig") /\ tasks' = Resumed(i)) =>
              /\ target_xy(session) = tasks.suspended[i].xy
              /\ ~target_cell_raises(session)
              /\ target_cell(session) # NoneCell
      ]_vars

\* the hp the call took from slot i below the player's starting position
ColumnRemoved(s, t, i) ==
    LET pre == grid_at(s.grid, pos_x(s), pos_y(s) + i)
        post == grid_at(t.grid, pos_x(s), pos_y(s) + i)
    IN  IF pre = NoneCell THEN 0
        ELSE IF post = NoneCell THEN pre.hp ELSE pre.hp - post.hp

RECURSIVE RemovedSum(_, _, _)
RemovedSum(s, t, k) ==
    IF k = 0 THEN 0 ELSE RemovedSum(s, t, k - 1) + ColumnRemoved(s, t, k)

\* C14: cascading_dig(total_hp) spends its whole budget: the hp it removed
\* from the cells below the player (the hp of every cell fallen through plus
\* the partial damage to the last cell) sums to exactly total_hp, and the
\* dig_hp quest progress it reports, total_hp - remaining, is that removed hp.
CascadeRemovesWholeBudget ==
    [][ ( /\ fn'.op = "cascading_dig" /\ fn'.n = fn.n + 1
          /\ pos_y(session) + MaxFall + 1 < Len(session.grid) ) =>
            /\ RemovedSum(session, session', MaxFall + 1)
                   = HP_UNIT * fn'.args.total_hp
            /\ fn'.ret.progress = RemovedSum(session, session', MaxFall + 1)
      ]_vars

\* C15: the railgun is used at most once per hour: over every interleaving of
\* railgun clicks by one user, cascading_dig is never performed while the
\* cooldown set by the previous use is still running.
RailgunOncePerCooldown ==
    [][ \A i \in DOMAIN tasks.suspended :
          (Suspended(i, "railgun") /\ tasks' = Resumed(i)) => ~inv.railgun_cooldown
      ]_vars

\* C16: dynamite is consumed upon use: over every interleaving of dynamite
\* clicks, each surrounding_dig of the button comes with exactly one
\* decrement of the user's dynamite count, and the count never drops below 0.
DynamiteConsumedOnUse ==
    /\ [](inv.dynamite >= 0)
    /\ [][ \A i \in DOMAIN tasks.suspended :
             (Suspended(i, "dynamite") /\ tasks' = Resumed(i)) =>
                 inv'.dynamite = inv.dynamite - 1
         ]_vars

\* the session is finished and its totals are in persistent storage
Surfaced ==
    /\ finished
    /\ store.flushes = 1
    /\ store.wallet = session.collected_coins
    /\ store.items = session.collected_items

Neighbours(s) ==
    {<<pos_x(s), pos_y(s) + 1>>, <<pos_x(s) - 1, pos_y(s)>>, <<pos_x(s) + 1, pos_y(s)>>}
        \cap ((0 .. GRID_WIDTH - 1) \X (0 .. Len(s.grid) - 1))

\* C18: in every state reached through the navigation and dig buttons the
\* targeted coordinate satisfies 0 <= x < GRID_WIDTH, so that target_cell
\* neither indexes past the end of a row nor wraps to the opposite edge, and
\* a dig only damages the cell directly below, left or right of the player.
TargetStaysInGrid ==
    /\ [](target_xy(session)[1] \in 0 .. GRID_WIDTH - 1)
    /\ [][ Dig =>
             \A xx \in 0 .. GRID_WIDTH - 1, yy \in 0 .. Len(session.grid) - 1 :
                 grid_at(session'.grid, xx, yy) # grid_at(session.grid, xx, yy)
                     => <<xx, yy>> \in Neighbours(session)
         ]_vars

\* the hp a dig is to take from the cell: the pickaxe's strength on an ore,
\* the shovel's on anything else, 1 without the tool, and never more than
\* the cell has
DigDamage(s, cell) ==
    LET ore == cell.item # "None" /\ ItemTypeOf(cell.item) = "ore"
        tool == IF ore THEN s.pickaxe ELSE s.shovel
        strength == IF tool = "None" THEN 1 ELSE ToolStrength(tool)
    IN  Min(HP_UNIT * strength, cell.hp)

\* C19: when a dig reduces a left or right target cell's hp to 0, that cell is
\* collected (its slot becomes None and its coins or item are added to the
\* totals) while the player's position, the target direction and len(grid)
\* are unchanged.
SideDigCollects ==
    [][ ( /\ Dig
          /\ session.target \in {"left", "right"}
          /\ DigDamage(session, target_cell(session)) = target_cell(session).hp ) =>
            LET cell == target_cell(session) IN
            /\ target_cell(session') = NoneCell
            /\ session'.collected_coins = session.collected_coins + cell.coins
            /\ session'.collected_items =
                   IF cell.item = "None" THEN session.collected_items
                   ELSE [session.collected_items EXCEPT ![cell.item] = @ + 1]
            /\ session'.position = session.position
            /\ session'.target = session.target
            /\ Len(session'.grid) = Len(session.grid)
      ]_vars

\* C20: each dig lowers the target cell's hp by exactly
\* min(strength * hp_multiplier, cell.hp), strength being the equipped
\* pickaxe's if the target holds an ore and the equipped shovel's otherwise,
\* and 1 if that tool is not owned; a dig never takes a cell's hp below 0.
DigDealsToolStrength ==
    [][ Dig =>
          LET xy == target_xy(session)
              cell == target_cell(session)
              post == grid_at(session'.grid, PyIdx(xy[1], GRID_WIDTH), xy[2])
          IN  /\ post # NoneCell =>
                    /\ post.hp = cell.hp - DigDamage(session, cell)
                    /\ post.hp >= 0
              /\ post = NoneCell => DigDamage(session, cell) = cell.hp
      ]_vars

\* a shovel of strength 2 dug into the relic: it has lost exactly 2 hp
ShovelledRelic ==
    /\ session.shovel = "shovel"
    /\ session.target = "down"
    /\ target_cell(session) # NoneCell
    /\ target_cell(session).item = "ancient_relic"
    /\ target_cell(session).hp = HP_UNIT * (ItemHp("ancient_relic") - 2)
    /\ session.stamina < MaxStamina

\* the rows prepare generates: those of the window seen from the surface
PreparedRows(s) == y_range([s EXCEPT !.position = <<pos_x(s), -1>>])[2]

\* every row of the grid has GRID_WIDTH entries
RowsHaveGridWidth == \A r \in DOMAIN session.grid : Len(session.grid[r]) = GRID_WIDTH

\* C21 (as stated): len(grid) equals the maximum row index the player has
\* reached plus 1, and every row has exactly GRID_WIDTH entries.  While the
\* session is played y never decreases, so the maximum is the current y.
GridLenIsDepthPlusOne ==
    /\ Len(session.grid) = pos_y(session) + 1
    /\ RowsHaveGridWidth

\* C21 (amended): len(grid) equals the maximum row index the player has
\* reached plus 1 plus the number of rows prepare generated for the window
\* seen from the surface, and every row has exactly GRID_WIDTH entries.
GridLenTracksDepth ==
    /\ Len(session.grid) = pos_y(session) + 1 + PreparedRows(session)
    /\ RowsHaveGridWidth

\* the player is two rows down: two rows were appended to the prepared ones
TwoRowsAppended ==
    /\ pos_y(session) = 1
    /\ Len(session.grid) = PreparedRows(session) + 2

\* the slots of the grid g, as <<x, y>>
Slots(g) == (0 .. GRID_WIDTH - 1) \X (0 .. Len(g) - 1)

\* C22: after every completed action every Cell still in the grid has
\* hp >= 0, and no cell that the action reduced to hp <= 0 remains in the
\* grid as a Cell: its slot is None.
NoDeadCellRemains ==
    /\ [](\A xy \in Slots(session.grid) :
            grid_at(session.grid, xy[1], xy[2]) # NoneCell
                => grid_at(session.grid, xy[1], xy[2]).hp >= 0)
    /\ [][ \A xy \in Slots(session.grid) :
             LET pre == grid_at(session.grid, xy[1], xy[2])
                 post == grid_at(session'.grid, xy[1], xy[2])
             IN  (pre # NoneCell /\ post # NoneCell /\ post.hp < pre.hp) => post.hp > 0
         ]_vars

\* C23: after every surrounding_dig call the target is down and the cell
\* directly below the player's final position exists in the grid and is not
\* None.
BlastEndsAboveCell ==
    [][ Dynamite =>
          /\ session'.target = "down"
          /\ pos_x(session') \in Cols
          /\ pos_y(session') + 1 \in 0 .. Len(session'.grid) - 1
          /\ grid_at(session'.grid, pos_x(session'), pos_y(session') + 1) # NoneCell
      ]_vars

\* dynamite was lit at the surface before anything was dug: the player fell
\* through the two cells it emptied and stands above the third
FellThroughCrater ==
    /\ inv.dynamite = MaxDynamite - 1
    /\ session.stamina = MaxStamina
    /\ ~inv.railgun_cooldown
    /\ session.position = <<GRID_WIDTH \div 2, 1>>
    /\ session.target = "down"
    /\ target_cell(session) # NoneCell

\* C24: an existing row is never regenerated: rows are only appended, each
\* generated once for the index len(grid) it gets, and from one state to the
\* next an emptied (None) slot stays None and no cell's hp, item or coins is
\* reset or increased.
RowsNeverRegenerated ==
    [][ /\ Len(session'.grid) >= Len(session.grid)
        /\ \A k \in Len(session.grid) + 1 .. Len(session'.grid) :
              \E rnd \in AppendRnd : session'.grid[k] = generate_row(k - 1, rnd)
        /\ \A xy \in Slots(session.grid) :
              LET pre == grid_at(session.grid, xy[1], xy[2])
                  post == grid_at(session'.grid, xy[1], xy[2])
              IN  /\ pre = NoneCell => post = NoneCell
                  /\ post # NoneCell =>
                        /\ post.hp <= pre.hp
                        /\ post.item = pre.item
                        /\ post.coins = pre.coins
      ]_vars

\* the player dug one row down: the slot entered is empty, one row was
\* appended, and the cell now below has been damaged without being emptied
DugInWithRowAppended ==
    /\ session.position = <<GRID_WIDTH \div 2, 0>>
    /\ grid_at(session.grid, GRID_WIDTH \div 2, 0) = NoneCell
    /\ Len(session.grid) = PreparedRows(session) + 1
    /\ session.grid[Len(session.grid)] \in {generate_row(Len(session.grid) - 1, rnd) : rnd \in AppendRnd}
    /\ target_cell(session) # NoneCell
    /\ target_cell(session).item = "dirt"
    /\ target_cell(session).hp = HP_UNIT

\* C25: after every downward move the exploration set holds no coordinate
\* above the visible row window: every (x, y) in explored has
\* y >= y_range.start, evaluated at the player's new position.
ExploredWithinWindow ==
    [][ (fn'.op = "move" /\ fn'.n = fn.n + 1 /\ fn'.args.target = "down") =>
          \A e \in session'.explored : e[2] >= y_range(session')[1]
      ]_vars

\* C26: the dig is never applied to an empty target: whenever the Dig button
\* is offered and enabled the target cell is a non-None cell, and a left or
\* right navigation onto an empty neighbour, or at the surface, repositions
\* the player instead of changing the target.
DigNeverOnEmptyTarget ==
    /\ []( (~finished /\ shown.dig_shown /\ ~shown.dig_disabled) =>
             /\ ~target_cell_raises(session)
             /\ target_cell(session) # NoneCell )
    /\ [][ (Left /\ ( \/ pos_y(session) < 0
                      \/ grid_at(session.grid, pos_x(session) - 1, pos_y(session))
                             = NoneCell )) =>
               /\ session'.position = <<pos_x(session) - 1, pos_y(session)>>
               /\ session'.target = session.target ]_vars
    /\ [][ (Right /\ ( \/ pos_y(session) < 0
                       \/ grid_at(session.grid, pos_x(session) + 1, pos_y(session))
                              = NoneCell )) =>
               /\ session'.position = <<pos_x(session) + 1, pos_y(session)>>
               /\ session'.target = session.target ]_vars

\* underground, the player stepped right into the slot emptied by a dig;
\* the cell below is offered to no dig because the target points right
SteppedIntoDugSlot ==
    /\ pos_y(session) = 0
    /\ pos_x(session) = GRID_WIDTH \div 2 + 1
    /\ session.target = "right"
    /\ grid_at(session.grid, GRID_WIDTH \div 2, 0) = NoneCell
    /\ session.stamina = MaxStamina - 2

\* C27: surrounding_dig never divides by zero: in every reachable state the
\* slot at the player's own position is None, or the player is at the
\* surface (y = -1), so the cell at distance 0 is skipped before
\* base_hp / distance is evaluated.
OwnSlotIsEmpty ==
    /\ \/ pos_y(session) = -1
       \/ /\ pos_x(session) \in Cols
          /\ pos_y(session) \in 0 .. Len(session.grid) - 1
          /\ grid_at(session.grid, pos_x(session), pos_y(session)) = NoneCell
    /\ ~BlastLoop(session, DYNAMITE_HP, DYNAMITE_RADIUS, 0, 0, 0, NoItems).raised

\* the player stands underground between two cells with dynamite at hand
DynamiteReadyUnderground ==
    /\ session.position = <<GRID_WIDTH \div 2, 0>>
    /\ grid_at(session.grid, GRID_WIDTH \div 2 - 1, 0) # NoneCell
    /\ grid_at(session.grid, GRID_WIDTH \div 2 + 1, 0) # NoneCell
    /\ inv.dynamite > 0
    /\ shown.action_shown /\ ~shown.dynamite_disabled

\* C28: the grid contains every non-negative row of the visible window and
\* the row below the player: len(grid) >= y_range.stop and
\* len(grid) > position.y + 1, so that the down-target lookup, the update of
\* the navigation row and the renderer never index past the end of the grid.
GridCoversWindow ==
    /\ Len(session.grid) >= y_range(session)[2]
    /\ Len(session.grid) > pos_y(session) + 1
    /\ \A yy \in y_range(session)[1] .. y_range(session)[2] - 1 :
          yy >= 0 => ~grid_raises(session.grid, 0, yy)
    /\ ~grid_raises(session.grid, pos_x(session), pos_y(session) + 1)

\* three rows down the window has scrolled: its last row is the last but one
\* of the grid
WindowScrolled ==
    /\ pos_y(session) = 2
    /\ y_range(session)[2] = PreparedRows(session) + 2
    /\ Len(session.grid) = y_range(session)[2] + 1

\* the slots that hold a cell in grid g and are empty in grid h
Emptied(g, h) ==
    {xy \in Slots(g) : /\ grid_at(g, xy[1], xy[2]) # NoneCell
                       /\ grid_at(h, xy[1], xy[2]) = NoneCell}

\* C29: collection conserves contents: over every operation collected_coins
\* grows by the coins of the cells whose slot the operation turned to None,
\* and collected_items[i] by the number of those cells that held i; no cell
\* is emptied without being counted and none is counted twice.
CollectionConservesContents ==
    [][ LET gone == Emptied(session.grid, session'.grid)
            pre(xy) == grid_at(session.grid, xy[1], xy[2])
        IN  /\ session'.collected_coins =
                   session.collected_coins + SumOver(gone, [xy \in gone |-> pre(xy).coins])
            /\ \A i \in ITEMS :
                   session'.collected_items[i] =
                       session.collected_items[i]
                       + Cardinality({xy \in gone : pre(xy).item = i})
      ]_vars

\* coins and dirt are in the totals, the last of them taken by collect(x, y)
CollectedCoinsAndDirt ==
    /\ fn.op = "collect"
    /\ fn.ret # OutNone
    /\ session.collected_coins > 0
    /\ session.collected_items["dirt"] > 0

====
